---- MODULE Spec2Model ----
(***************************************************************************)
(* Conditional WGAN-GP training on DNIM (dnim-cwgangp.py).                 *)
(*                                                                         *)
(* Three specifications over one set of variables:                         *)
(*   Spec       the training run set up by run(args): the trainer's        *)
(*              iteration (forward, loss, optimizer step, end-of-iteration *)
(*              callbacks) with the two callbacks of this file;            *)
(*   SpecModel  the CGANModel wrapper called method by method;             *)
(*   SpecNet    CGeneratorNetwork applied layer by layer to a batch shape. *)
(*                                                                         *)
(* Tensors are abstracted to what the program's control flow and frame     *)
(* conditions depend on: which dataset items a batch holds (so its batch   *)
(* size), which generator parameters and mode produced a fake image.       *)
(* Parameters are abstracted to the number of optimizer steps applied.     *)
(***************************************************************************)
EXTENDS Integers, Sequences, FiniteSets, TLC

\* Bounds of the model.
MaxEpochs == 2
MaxDataset == 4
MaxBatch == 2
MaxFrequency == 2
MaxCalls == 2
MaxItems == 2
MaxN == 2
MaxHW == 33

VARIABLES
    args,             \* the parsed command line, plus the dataset's length
    pc,               \* position of the single training thread
    epoch_count,      \* passes over the loader completed
    iteration_count,  \* training iterations completed
    remaining,        \* dataset items the loader has not served in this pass
    batch,            \* dataset items of the current batch, in order
    params,           \* optimizer steps applied to each network's parameters
    training,         \* nn.Module.training of the model
    hooks,            \* CGANModel._state_hooks
    img,              \* CGenerateDataCallback: count, image_count, image_path
    gen,              \* CGeneratorTrainingCallback: count
    pending,          \* end_of_training_iteration callbacks still to run
    saved,            \* image files written, in order: path and content
    call,             \* SpecModel: the last method called on the model
    net               \* SpecNet: input shape, current shape, next layer

vars == <<args, pc, epoch_count, iteration_count, remaining, batch, params,
          training, hooks, img, gen, pending, saved, call, net>>

trainerVars == <<args, pc, epoch_count, iteration_count, remaining, batch,
                 img, gen, pending, saved>>

Min(a, b) == IF a < b THEN a ELSE b

-----------------------------------------------------------------------------
(* Tensors *)

NoTensor == [kind |-> "none"]

\* DNIMWrapper.__getitem__ returns (days[item], nights[item], nights[item]);
\* the loader stacks the items of a batch.
Days(items) == [kind |-> "day", items |-> items]
Nights(items) == [kind |-> "night", items |-> items]

\* Size of dimension 0.
BatchSize(t) ==
    CASE t.kind \in {"day", "night"} -> Len(t.items)
      [] t.kind = "xfake" -> Len(t.cond)
      [] t.kind = "xmix" -> t.n
      [] OTHER -> 0

\* Sequences of n distinct elements of S.
Arrangements(S, n) ==
    {s \in [1..n -> S] : \A i, j \in 1..n : i # j => s[i] # s[j]}

\* gan_utils.format_images: the display-formatted version of an image batch.
format_images(x) == [kind |-> "grid", of |-> x]

-----------------------------------------------------------------------------
(* CGANModel *)

\* self.generator(y): the fake image of condition y under the generator's
\* current parameters; the Dropout layers make it depend on the mode.
Generator(y, p, mode) ==
    [kind |-> "xfake", cond |-> y.items, gver |-> p.generator, train |-> mode]

\* CDiscriminatorNetwork.forward: torch.cat((x, y), dim=1) needs equal sizes
\* in dimension 0; one score per batch element.
Discriminator(x, y, p) ==
    IF BatchSize(x) = BatchSize(y)
    THEN [kind |-> "score", n |-> BatchSize(x), dver |-> p.discriminator]
    ELSE [kind |-> "shape_error"]

EmptyHooks ==
    [xfake |-> NoTensor, y |-> NoTensor, generated_images |-> NoTensor,
     xreal |-> NoTensor, real_images |-> NoTensor]

\* Mutant of generate_hooks: the condition is not cached.
generate_hooks_no_y(h, y, p, mode) ==
    [h EXCEPT !.xfake = Generator(y, p, mode),
              !.generated_images = format_images(Generator(y, p, mode))]

\* CGANModel.generate: the cache after the call.
generate_hooks(h, y, p, mode) ==
    [h EXCEPT !.xfake = Generator(y, p, mode),
              !.y = y,
              !.generated_images = format_images(Generator(y, p, mode))]

\* CGANModel.discriminate: no cache entry is written.
discriminate(x, y, p) == Discriminator(x, y, p)

\* CGANModel.y_fake: discriminate(generate(y), y).
y_fake_hooks(h, y, p, mode) == generate_hooks(h, y, p, mode)
y_fake(y, p, mode) == discriminate(Generator(y, p, mode), y, p)

\* Mutant of y_real_hooks: the condition is cached with the real image.
y_real_hooks_with_y(h, xreal, y, p) ==
    [h EXCEPT !.xreal = xreal, !.real_images = format_images(xreal), !.y = y]

\* CGANModel.y_real: the cache after the call; discriminate raises before
\* anything is cached when the sizes differ.
y_real_hooks(h, xreal, y, p) ==
    IF discriminate(xreal, y, p).kind = "shape_error"
    THEN h
    ELSE [h EXCEPT !.xreal = xreal, !.real_images = format_images(xreal)]

\* CGANModel.forward: y_real(xreal, y), then y_fake(y).
forward_hooks(h, xreal, y, p, mode) ==
    y_fake_hooks(y_real_hooks(h, xreal, y, p), y, p, mode)

-----------------------------------------------------------------------------
(* WGAN-GP discriminator loss *)

\* WGANDiscriminatorLoss: the interpolation of the cached real and fake
\* images, one mixed image per element of the real batch.
Xmix(h) == [kind |-> "xmix", n |-> BatchSize(h.xreal)]

\* CWGANDiscriminatorLoss.discriminate: the score of the interpolated images
\* under the condition read from the model's cache.
CWGANDiscriminatorLoss_discriminate(h, xmix, p) ==
    IF h.y.kind = "none"
    THEN [kind |-> "key_error"]
    ELSE discriminate(xmix, h.y, p)

-----------------------------------------------------------------------------
(* Optimizers *)

\* trainer.build_optimizer('Adam', model.discriminator.parameters(), ...)
DiscriminatorOptParams == {"discriminator"}

\* Mutant of GeneratorOptParams: the optimizer is built over model.parameters().
GeneratorOptParams_all == {"generator", "discriminator"}

\* CGeneratorTrainingCallback(args, parameters=model.generator.parameters(), ...)
GeneratorOptParams == {"generator"}

\* opt.step(): one update of the parameters the optimizer was built over.
OptStep(p, names) ==
    [n \in DOMAIN p |-> IF n \in names THEN p[n] + 1 ELSE p[n]]

-----------------------------------------------------------------------------
(* File names *)

RECURSIVE Digits(_)
\* The decimal digits of n >= 0, most significant first.
Digits(n) == IF n < 10 THEN <<n>> ELSE Append(Digits(n \div 10), n % 10)

\* '{:08d}'.format(n): the digits of n, zero-padded on the left to width 8.
Format08d(n) ==
    LET d == Digits(n)
    IN  IF Len(d) >= 8 THEN d ELSE [i \in 1..(8 - Len(d)) |-> 0] \o d

\* Mutant of ImagePath: the counter is advanced before the name is formatted.
ImagePath_after_increment(image_count) == Format08d(image_count + 1)

\* save_images: image_path, the name under <save_directory>/generated_images.
ImagePath(image_count) == Format08d(image_count)

-----------------------------------------------------------------------------
(* The training run: run(args) *)

\* The options the schedule depends on, and len(DNIMWrapper()).
ArgsSpace ==
    [epochs : 1..MaxEpochs,
     batch_size : 1..MaxBatch,
     image_frequency : 1..MaxFrequency,
     generator_frequency : 1..MaxFrequency,
     dataset_len : 1..MaxDataset]

\* The callbacks run() registers.  The order in which the trainer's callback
\* engine runs the callbacks of one trigger is not fixed by this file: both
\* orders are admitted.
Callbacks == {"CGenerateDataCallback", "CGeneratorTrainingCallback"}

\* CGenerateDataCallback.__init__: self.y = self.dataset[0][1].unsqueeze(0)
CallbackY == Nights(<<0>>)

\* Mutant of ImageDue / GeneratorDue: the counter is compared with >=.
Due_geq(count, frequency) == count >= frequency

\* CGenerateDataCallback.end_of_training_iteration: self.count > self.frequency
ImageDue(count, frequency) == count > frequency

\* CGeneratorTrainingCallback.end_of_training_iteration: self.count > self.frequency
GeneratorDue(count, frequency) == count > frequency

\* Mutant of ModeAfterGenerate: training mode is not restored.
ModeAfterGenerate_eval == FALSE

\* CGenerateDataCallback.generate: self.trainer.model.train()
ModeAfterGenerate == TRUE

ModelInit ==
    /\ params = [generator |-> 0, discriminator |-> 0]
    /\ training = TRUE
    /\ hooks = EmptyHooks

NoCall == [n |-> 0, op |-> "none", x |-> NoTensor, y |-> NoTensor]
NetIdle == [layer |-> 0]

Init ==
    \E a \in ArgsSpace :
        /\ args = a
        /\ pc = "fetch"
        /\ epoch_count = 0
        /\ iteration_count = 0
        /\ remaining = 0..(a.dataset_len - 1)
        /\ batch = <<>>
        /\ ModelInit
        /\ img = [count |-> 0, image_count |-> 0, image_path |-> <<>>]
        /\ gen = [count |-> 0]
        /\ pending = {}
        /\ saved = <<>>
        /\ call = NoCall
        /\ net = NetIdle

\* dnim_cgan_data_loader: DataLoader(batch_size=args.batch_size, shuffle=True);
\* the next batch of a pass, in any order, the last one possibly short.
FetchNextBatch ==
    /\ pc = "fetch"
    /\ \E b \in Arrangements(remaining,
                             Min(args.batch_size, Cardinality(remaining))) :
        /\ batch' = b
        /\ remaining' = remaining \ {b[i] : i \in 1..Len(b)}
    /\ pc' = "forward"
    /\ UNCHANGED <<args, epoch_count, iteration_count, params, training,
                   hooks, img, gen, pending, saved, call, net>>

\* The trainer applies the model to the batch's two inputs (num_inputs=2).
Forward ==
    /\ pc = "forward"
    /\ hooks' = forward_hooks(hooks, Days(batch), Nights(batch), params, training)
    /\ pc' = "loss"
    /\ UNCHANGED <<args, epoch_count, iteration_count, remaining, batch,
                   params, training, img, gen, pending, saved, call, net>>

\* The criterion, CWGANDiscriminatorLoss, on the model's output: the
\* gradient penalty scores the interpolated images; a failure is fatal.
DiscriminatorLoss ==
    /\ pc = "loss"
    /\ pc' = IF CWGANDiscriminatorLoss_discriminate(hooks, Xmix(hooks), params).kind
                  = "score"
             THEN "optimizer_step"
             ELSE "error"
    /\ UNCHANGED <<args, epoch_count, iteration_count, remaining, batch,
                   params, training, hooks, img, gen, pending, saved, call, net>>

\* The trainer's optimizer step, then the end-of-iteration callbacks are due.
OptimizerStep ==
    /\ pc = "optimizer_step"
    /\ params' = OptStep(params, DiscriminatorOptParams)
    /\ pending' = Callbacks
    /\ pc' = "callbacks"
    /\ UNCHANGED <<args, epoch_count, iteration_count, remaining, batch,
                   training, hooks, img, gen, saved, call, net>>

\* CGenerateDataCallback.end_of_training_iteration, up to the call of
\* save_images.
ImageEndOfTrainingIteration ==
    /\ pc = "callbacks"
    /\ "CGenerateDataCallback" \in pending
    /\ img' = [img EXCEPT !.count = @ + 1]
    /\ IF ImageDue(img.count + 1, args.image_frequency)
       THEN pc' = "save_images" /\ pending' = pending
       ELSE pc' = "callbacks" /\ pending' = pending \ {"CGenerateDataCallback"}
    /\ UNCHANGED <<args, epoch_count, iteration_count, remaining, batch,
                   params, training, hooks, gen, saved, call, net>>

\* save_images: the path is formatted from image_count, which then advances.
SaveImagesPath ==
    /\ pc = "save_images"
    /\ img' = [img EXCEPT !.image_path = ImagePath(img.image_count),
                          !.image_count = @ + 1]
    /\ pc' = "generate_eval"
    /\ UNCHANGED <<args, epoch_count, iteration_count, remaining, batch,
                   params, training, hooks, gen, pending, saved, call, net>>

\* generate: self.trainer.model.eval()
GenerateEval ==
    /\ pc = "generate_eval"
    /\ training' = FALSE
    /\ pc' = "generate"
    /\ UNCHANGED <<args, epoch_count, iteration_count, remaining, batch,
                   params, hooks, img, gen, pending, saved, call, net>>

\* generate: self.trainer.model.generate(y) on the callback's fixed condition.
GenerateCall ==
    /\ pc = "generate"
    /\ hooks' = generate_hooks(hooks, CallbackY, params, training)
    /\ pc' = "generate_train"
    /\ UNCHANGED <<args, epoch_count, iteration_count, remaining, batch,
                   params, training, img, gen, pending, saved, call, net>>

\* generate: self.trainer.model.train()
GenerateTrain ==
    /\ pc = "generate_train"
    /\ training' = ModeAfterGenerate
    /\ pc' = "save_file"
    /\ UNCHANGED <<args, epoch_count, iteration_count, remaining, batch,
                   params, hooks, img, gen, pending, saved, call, net>>

\* save_images: the generated image is formatted and written to image_path;
\* back in end_of_training_iteration, self.count = 0.
SaveFile ==
    /\ pc = "save_file"
    /\ saved' = Append(saved, [path |-> img.image_path,
                               image |-> format_images(hooks.xfake)])
    /\ img' = [img EXCEPT !.count = 0]
    /\ pending' = pending \ {"CGenerateDataCallback"}
    /\ pc' = "callbacks"
    /\ UNCHANGED <<args, epoch_count, iteration_count, remaining, batch,
                   params, training, hooks, gen, call, net>>

\* CGeneratorTrainingCallback.end_of_training_iteration, up to the call of
\* train_generator.
GeneratorEndOfTrainingIteration ==
    /\ pc = "callbacks"
    /\ "CGeneratorTrainingCallback" \in pending
    /\ gen' = [gen EXCEPT !.count = @ + 1]
    /\ IF GeneratorDue(gen.count + 1, args.generator_frequency)
       THEN pc' = "train_generator" /\ pending' = pending
       ELSE pc' = "callbacks"
            /\ pending' = pending \ {"CGeneratorTrainingCallback"}
    /\ UNCHANGED <<args, epoch_count, iteration_count, remaining, batch,
                   params, training, hooks, img, saved, call, net>>

\* train_generator: y_fake on one example drawn at random, the generator
\* loss, one step of the generator's optimizer; then self.count = 0.
TrainGenerator ==
    /\ pc = "train_generator"
    /\ \E r \in 0..(args.dataset_len - 1) :
        hooks' = y_fake_hooks(hooks, Nights(<<r>>), params, training)
    /\ params' = OptStep(params, GeneratorOptParams)
    /\ gen' = [gen EXCEPT !.count = 0]
    /\ pending' = pending \ {"CGeneratorTrainingCallback"}
    /\ pc' = "callbacks"
    /\ UNCHANGED <<args, epoch_count, iteration_count, remaining, batch,
                   training, img, saved, call, net>>

\* The iteration ends when its callbacks have run.  A pass ends with the
\* loader's last batch; the run ends after args.epochs passes
\* (trainer.set_max_num_epochs(args.epochs)).
NextIteration ==
    /\ pc = "callbacks"
    /\ pending = {}
    /\ iteration_count' = iteration_count + 1
    /\ IF remaining = {}
       THEN /\ epoch_count' = epoch_count + 1
            /\ remaining' = 0..(args.dataset_len - 1)
       ELSE UNCHANGED <<epoch_count, remaining>>
    /\ pc' = IF epoch_count' >= args.epochs THEN "done" ELSE "fetch"
    /\ UNCHANGED <<args, batch, params, training, hooks, img, gen, pending,
                   saved, call, net>>

Next ==
    \/ FetchNextBatch
    \/ Forward
    \/ DiscriminatorLoss
    \/ OptimizerStep
    \/ ImageEndOfTrainingIteration
    \/ SaveImagesPath
    \/ GenerateEval
    \/ GenerateCall
    \/ GenerateTrain
    \/ SaveFile
    \/ GeneratorEndOfTrainingIteration
    \/ TrainGenerator
    \/ NextIteration

Spec == Init /\ [][Next]_vars

-----------------------------------------------------------------------------
(* The model wrapper called method by method: SpecModel *)

IdleArgs ==
    [epochs |-> 1, batch_size |-> 1, image_frequency |-> 1,
     generator_frequency |-> 1, dataset_len |-> 1]

TrainerIdle ==
    /\ args = IdleArgs
    /\ pc = "idle"
    /\ epoch_count = 0
    /\ iteration_count = 0
    /\ remaining = {}
    /\ batch = <<>>
    /\ img = [count |-> 0, image_count |-> 0, image_path |-> <<>>]
    /\ gen = [count |-> 0]
    /\ pending = {}
    /\ saved = <<>>

\* The batches the methods are called on: up to MaxItems items, in any order.
ModelBatches == UNION {Arrangements(0..(MaxItems - 1), n) : n \in 1..MaxItems}

InitModel ==
    /\ TrainerIdle
    /\ ModelInit
    /\ call = NoCall
    /\ net = NetIdle

Called(op, x, y) == call' = [n |-> call.n + 1, op |-> op, x |-> x, y |-> y]

CallGenerate ==
    /\ call.n < MaxCalls
    /\ \E b \in ModelBatches :
        /\ hooks' = generate_hooks(hooks, Nights(b), params, training)
        /\ Called("generate", NoTensor, Nights(b))
    /\ UNCHANGED <<trainerVars, params, training, net>>

CallDiscriminate ==
    /\ call.n < MaxCalls
    /\ \E b \in ModelBatches :
        /\ discriminate(Days(b), Nights(b), params).kind = "score"
        /\ Called("discriminate", Days(b), Nights(b))
    /\ UNCHANGED <<trainerVars, params, training, hooks, net>>

CallYFake ==
    /\ call.n < MaxCalls
    /\ \E b \in ModelBatches :
        /\ y_fake(Nights(b), params, training).kind = "score"
        /\ hooks' = y_fake_hooks(hooks, Nights(b), params, training)
        /\ Called("y_fake", NoTensor, Nights(b))
    /\ UNCHANGED <<trainerVars, params, training, net>>

CallYReal ==
    /\ call.n < MaxCalls
    /\ \E b \in ModelBatches :
        /\ hooks' = y_real_hooks(hooks, Days(b), Nights(b), params)
        /\ Called("y_real", Days(b), Nights(b))
    /\ UNCHANGED <<trainerVars, params, training, net>>

CallForward ==
    /\ call.n < MaxCalls
    /\ \E b \in ModelBatches :
        /\ hooks' = forward_hooks(hooks, Days(b), Nights(b), params, training)
        /\ Called("forward", Days(b), Nights(b))
    /\ UNCHANGED <<trainerVars, params, training, net>>

\* nn.Module.eval() / nn.Module.train(), as CGenerateDataCallback.generate
\* calls them around model.generate.
CallEval ==
    /\ training = TRUE
    /\ training' = FALSE
    /\ UNCHANGED <<trainerVars, params, hooks, call, net>>

CallTrain ==
    /\ training = FALSE
    /\ training' = TRUE
    /\ UNCHANGED <<trainerVars, params, hooks, call, net>>

NextModel ==
    \/ CallGenerate
    \/ CallDiscriminate
    \/ CallYFake
    \/ CallYReal
    \/ CallForward
    \/ CallEval
    \/ CallTrain

SpecModel == InitModel /\ [][NextModel]_vars

-----------------------------------------------------------------------------
(* The generator network applied layer by layer: SpecNet *)

None == [op |-> "None"]
Conv2d(cin, cout, k, s, p) ==
    [op |-> "Conv2d", cin |-> cin, cout |-> cout,
     kernel_size |-> k, stride |-> s, padding |-> p]
ConvTranspose2d(cin, cout, k, s, p) ==
    [op |-> "ConvTranspose2d", cin |-> cin, cout |-> cout,
     kernel_size |-> k, stride |-> s, padding |-> p]
InstanceNorm2d(c) == [op |-> "InstanceNorm2d", c |-> c]
LeakyReLU == [op |-> "LeakyReLU"]
Dropout == [op |-> "Dropout"]
Sigmoid == [op |-> "Sigmoid"]

\* The convolutions of CGeneratorNetwork, in order.
Conv1 == Conv2d(3, 32, 3, 1, 3)
Conv2 == Conv2d(32, 64, 4, 2, 1)
Conv3 == Conv2d(64, 128, 4, 2, 1)
Conv4 == Conv2d(128, 256, 4, 2, 1)
Deconv1 == ConvTranspose2d(256, 128, 4, 2, 1)
Deconv2 == ConvTranspose2d(128, 64, 4, 2, 1)
\* Mutant of Deconv3: padding=1, as in the two transposed convolutions before.
Deconv3_padding1 == ConvTranspose2d(64, 32, 4, 2, 1)
Deconv3 == ConvTranspose2d(64, 32, 4, 2, 0)
ConvOut == Conv2d(32, 3, 3, 1, 0)

NotNone(m) == m.op # "None"

\* CGeneratorNetwork.__init__: the modules, the None entries filtered out.
CGeneratorNetwork(generator_instancenorm) ==
    LET IN2d(c) == IF generator_instancenorm THEN InstanceNorm2d(c) ELSE None
    IN  SelectSeq(
            <<Conv1, IN2d(32), LeakyReLU, Dropout,
              Conv2, IN2d(64), LeakyReLU, Dropout,
              Conv3, IN2d(128), LeakyReLU, Dropout,
              Conv4, IN2d(256), LeakyReLU, Dropout,
              Deconv1, IN2d(128), LeakyReLU, Dropout,
              Deconv2, IN2d(64), LeakyReLU, Dropout,
              Deconv3, IN2d(32), LeakyReLU,
              ConvOut, Sigmoid>>,
            NotNone)

ShapeError == [ok |-> FALSE, n |-> 0, c |-> 0, h |-> 0, w |-> 0]

\* Output size of a convolution along one dimension (floor division).
ConvOutSize(i, m) == (i + 2 * m.padding - m.kernel_size) \div m.stride + 1

\* Output size of a transposed convolution along one dimension.
ConvTransposeOutSize(i, m) == (i - 1) * m.stride - 2 * m.padding + m.kernel_size

\* The shape one module of the nn.Sequential gives for input shape s; a
\* channel mismatch or an input smaller than the kernel is an error.
ApplyLayer(m, s) ==
    IF ~s.ok THEN s
    ELSE IF m.op = "Conv2d"
    THEN IF \/ s.c # m.cin
            \/ s.h + 2 * m.padding < m.kernel_size
            \/ s.w + 2 * m.padding < m.kernel_size
         THEN ShapeError
         ELSE [s EXCEPT !.c = m.cout,
                        !.h = ConvOutSize(s.h, m),
                        !.w = ConvOutSize(s.w, m)]
    ELSE IF m.op = "ConvTranspose2d"
    THEN IF \/ s.c # m.cin
            \/ ConvTransposeOutSize(s.h, m) < 1
            \/ ConvTransposeOutSize(s.w, m) < 1
         THEN ShapeError
         ELSE [s EXCEPT !.c = m.cout,
                        !.h = ConvTransposeOutSize(s.h, m),
                        !.w = ConvTransposeOutSize(s.w, m)]
    ELSE s

\* A batch of n condition images of shape 3 x h x w enters the network.
InitNet ==
    /\ TrainerIdle
    /\ ModelInit
    /\ call = NoCall
    /\ \E n \in 1..MaxN, h \in 1..MaxHW, w \in 1..MaxHW, inorm \in BOOLEAN :
        LET s == [ok |-> TRUE, n |-> n, c |-> 3, h |-> h, w |-> w]
        IN  net = [layer |-> 1, input |-> s, shape |-> s,
                   generator_instancenorm |-> inorm]

NetDone == net.layer > Len(CGeneratorNetwork(net.generator_instancenorm))

\* nn.Sequential.forward: the next module is applied.
NetLayer ==
    /\ ~NetDone
    /\ net' = [net EXCEPT
                 !.shape = ApplyLayer(
                     CGeneratorNetwork(net.generator_instancenorm)[net.layer], @),
                 !.layer = @ + 1]
    /\ UNCHANGED <<trainerVars, params, training, hooks, call>>

NextNet == NetLayer

SpecNet == InitNet /\ [][NextNet]_vars

-----------------------------------------------------------------------------
(* Properties *)

ImageSteps == {"save_images", "generate_eval", "generate", "generate_train",
               "save_file"}
PeriodicSteps == ImageSteps \cup {"train_generator"}

RECURSIVE DecimalValue(_)
\* The number a sequence of decimal digits denotes.
DecimalValue(d) ==
    IF d = <<>> THEN 0
    ELSE 10 * DecimalValue(SubSeq(d, 1, Len(d) - 1)) + d[Len(d)]

\* C1: generator parameters change only in the generator-training step;
\* discriminator parameters change only in the discriminator step, and have
\* changed once more than the iterations completed whenever an iteration
\* completes; the image-sampling step changes no parameters.
C1_ParameterFrames ==
    [][/\ (params'.generator # params.generator => pc = "train_generator")
       /\ (params'.discriminator # params.discriminator
              => pc = "optimizer_step")
       /\ (pc = "optimizer_step"
              => /\ params'.discriminator # params.discriminator
                 /\ params'.generator = params.generator)
       /\ (pc \in PeriodicSteps
              => params'.discriminator = params.discriminator)
       /\ (iteration_count' # iteration_count
              => params.discriminator = iteration_count')]_vars

\* All three steps have acted in a finished run.
C1_Witness ==
    /\ pc = "done"
    /\ params.generator >= 1
    /\ params.discriminator >= 2
    /\ Len(saved) >= 1

\* C3 (as claimed): after the N iterations of a finished run the generator
\* has been updated floor(N / generator_frequency) times.
C3_GeneratorEveryK ==
    pc = "done"
        => params.generator = iteration_count \div args.generator_frequency

\* C4 (as claimed): after the N iterations of a finished run
\* floor(N / image_frequency) image files have been written.
C4_ImageEveryM ==
    pc = "done" => Len(saved) = iteration_count \div args.image_frequency

\* C5 (as claimed): in an iteration where the generator step is due, it has
\* completed when the image is sampled.
C5_GeneratorBeforeImage ==
    (/\ pc = "generate"
     /\ "CGeneratorTrainingCallback" \in pending)
        => ~GeneratorDue(gen.count + 1, args.generator_frequency)

\* C5 (amended): the discriminator step of the iteration precedes both
\* periodic steps, and the saved image is made with the generator parameters
\* of the moment of sampling: those from before this iteration's generator
\* step while that callback has not run, those after it otherwise.
C5_DiscriminatorFirst ==
    /\ (pc \in PeriodicSteps => params.discriminator = iteration_count + 1)
    /\ (pc = "save_file" =>
          /\ hooks.xfake.gver = params.generator
          /\ params.generator =
               IF "CGeneratorTrainingCallback" \in pending
               THEN iteration_count \div (args.generator_frequency + 1)
               ELSE (iteration_count + 1) \div (args.generator_frequency + 1))

\* Both periodic steps are due and the image is sampled first.
C5_Witness ==
    /\ pc = "save_file"
    /\ "CGeneratorTrainingCallback" \in pending
    /\ GeneratorDue(gen.count + 1, args.generator_frequency)

\* C6: the i-th image file written has the 8-digit name denoting i - 1, so
\* the indices used are 0 .. n-1 without gap or repeat, and no file is
\* written twice.
C6_SequentialNames ==
    /\ \A i \in 1..Len(saved) :
          /\ Len(saved[i].path) = 8
          /\ DecimalValue(saved[i].path) = i - 1
    /\ \A i, j \in 1..Len(saved) : i # j => saved[i].path # saved[j].path
    /\ (pc \notin ImageSteps => img.image_count = Len(saved))

C6_Witness == Len(saved) = 3

\* C7: the model is in evaluation mode only inside
\* CGenerateDataCallback.generate; it is in training mode at every
\* discriminator update and every generator update.
C7_TrainingModeAtUpdates ==
    /\ (pc \in {"forward", "loss", "optimizer_step", "train_generator"}
          => training = TRUE)
    /\ (training = FALSE => pc \in {"generate", "generate_train"})

\* A generator update after an image was sampled.
C7_Witness ==
    /\ pc = "train_generator"
    /\ Len(saved) >= 1
    /\ training = TRUE

\* C8: a call of generate or y_fake overwrites the cached fake-image state
\* with that call's values and leaves the real-image state; a call of y_real
\* overwrites the real-image state and leaves the fake-image state and the
\* cached condition; discriminate changes no cache entry.
C8_CacheFrames ==
    [][call'.n # call.n =>
        /\ (call'.op \in {"generate", "y_fake"} =>
              /\ hooks'.y = call'.y
              /\ hooks'.xfake.kind = "xfake"
              /\ hooks'.xfake.cond = call'.y.items
              /\ hooks'.xfake.gver = params.generator
              /\ hooks'.xfake.train = training
              /\ hooks'.generated_images.kind = "grid"
              /\ hooks'.generated_images.of = hooks'.xfake
              /\ hooks'.xreal = hooks.xreal
              /\ hooks'.real_images = hooks.real_images)
        /\ (call'.op = "y_real" =>
              /\ hooks'.xreal = call'.x
              /\ hooks'.real_images.kind = "grid"
              /\ hooks'.real_images.of = call'.x
              /\ hooks'.xfake = hooks.xfake
              /\ hooks'.generated_images = hooks.generated_images
              /\ hooks'.y = hooks.y)
        /\ (call'.op = "discriminate" => hooks' = hooks)]_vars

\* y_real was called after a generate on another condition.
C8_Witness ==
    /\ call.op = "y_real"
    /\ hooks.xreal = call.x
    /\ hooks.y.kind = "night"
    /\ hooks.y # call.y

\* C9: when the discriminator loss computes the gradient penalty, the cached
\* condition is the condition of the current batch, of the batch size of the
\* interpolated images; the penalty computation never fails.
C9_PenaltyCondition ==
    /\ pc # "error"
    /\ (pc = "loss" =>
          /\ hooks.y = Nights(batch)
          /\ BatchSize(hooks.y) = BatchSize(Xmix(hooks)))

\* The penalty of a batch of two, after a generator step and an image
\* sampling cached a single-example condition.
C9_Witness ==
    /\ pc = "loss"
    /\ Len(batch) = 2
    /\ params.generator >= 1
    /\ Len(saved) >= 1

====
